---------------------------- MODULE Spec2Model ----------------------------
(***************************************************************************)
(* MementoHash over JumpHash (package consistenthash) together with the    *)
(* hashing package it draws its digests from.                              *)
(*                                                                         *)
(* A uint64 is a sequence of 8 bytes, most significant first, which is the *)
(* order binary.BigEndian reads and writes.  Go's int is taken to be 64    *)
(* bits wide (amd64/arm64).                                                *)
(***************************************************************************)
EXTENDS Integers, Sequences, FiniteSets, TLC

(***************************************************************************)
(* Bounds of the model.                                                    *)
(***************************************************************************)
\* AddBucket is not called once the capacity m.buckets has reached MaxBuckets.
MaxBuckets == 4

\* AddNodes and RemoveNodes are called with lists of at most MaxNodes nodes.
MaxNodes == 2

(***************************************************************************)
(* uint64 arithmetic on bytes.                                             *)
(***************************************************************************)
Byte == 0..255

Reverse(s) == [i \in 1..Len(s) |-> s[Len(s) + 1 - i]]

\* The value of the first n bytes of a byte sequence modulo a small positive
\* m (Horner's rule).
RECURSIVE PrefixMod(_, _, _)
PrefixMod(bs, n, m) ==
    IF n = 0 THEN 0 ELSE ((PrefixMod(bs, n - 1, m) * 256) + bs[n]) % m

BytesMod(bs, m) == PrefixMod(bs, Len(bs), m)

\* uint64(n) for an int n of small magnitude, as its 8 big-endian bytes (what
\* binary.BigEndian.PutUint64 writes); a negative n is its two's complement.
U64(n) ==
    LET v == IF n >= 0 THEN n ELSE (-n) - 1
        low == << (v \div 16777216) % 256, (v \div 65536) % 256,
                  (v \div 256) % 256, v % 256 >>
    IN  IF n >= 0 THEN << 0, 0, 0, 0 >> \o low
        ELSE [i \in 1..8 |-> 255 - (<< 0, 0, 0, 0 >> \o low)[i]]

\* int(x) % n as Go computes it for a uint64 x and n > 0: int(x) reinterprets
\* the 64 bits as two's complement, and % truncates towards zero, so the
\* remainder of a negative int(x) is zero or negative.
IntRem(x, n) ==
    IF x[1] < 128 THEN BytesMod(x, n)
    ELSE LET magnitude == ((BytesMod(<< 1, 0, 0, 0, 0, 0, 0, 0, 0 >>, n) + n)
                              - BytesMod(x, n)) % n
         IN  0 - magnitude

\* The multiplier of the jump hash generator, 2862933555777941757 =
\* 0x27BB2EE687B0B0FD, least significant byte first.
JumpMultiplier == << 253, 176, 176, 135, 230, 46, 187, 39 >>

\* Column k of the schoolbook product a * JumpMultiplier (bytes 1..8, least
\* significant first): the sum of a[i] * JumpMultiplier[k + 1 - i] for i in 1..k.
RECURSIVE BytesColumn(_, _, _)
BytesColumn(a, k, i) ==
    IF i > k THEN 0
    ELSE (a[i] * JumpMultiplier[k + 1 - i]) + BytesColumn(a, k, i + 1)

\* The low 8 bytes of a * JumpMultiplier + carry, least significant first.
RECURSIVE MulAddBytes(_, _, _)
MulAddBytes(a, k, carry) ==
    IF k > 8 THEN << >>
    ELSE LET column == carry + BytesColumn(a, k, 1)
         IN  << column % 256 >> \o MulAddBytes(a, k + 1, column \div 256)

\* key = key*2862933555777941757 + 1, wrapping modulo 2^64.
JumpNextKey(key) == Reverse(MulAddBytes(Reverse(key), 1, 1))

\* key >> 33, a 31-bit value.
Shr33(key) ==
    (key[1] * 8388608) + (key[2] * 32768) + (key[3] * 128) + (key[4] \div 2)

\* int64(float64(b+1) * (float64(int64(1)<<31) / float64((key>>33)+1))), capped
\* at cap.  With d = (key>>33)+1 <= 2^31 the double result truncates to
\* floor((b+1) * 2^31 / d) whenever that is below 2^20, so j is the largest m
\* with m*d <= (b+1)*2^31.  d is kept as dh*2^16 + dl to stay within 32 bits.
\* The loop of jumpHash only compares j with numBuckets and assigns it to b
\* when it is smaller, so a j of numBuckets or more is reported as cap.
JumpStep(b, key, cap) ==
    LET s  == Shr33(key)
        dl == ((s % 65536) + 1) % 65536
        dh == (s \div 65536) + (IF dl = 0 THEN 1 ELSE 0)
        Fits(m) == (m * dh) + (((m * dl) + 65535) \div 65536) <= (b + 1) * 32768
    IN  CHOOSE m \in 0..cap : Fits(m) /\ (m = cap \/ ~Fits(m + 1))

\* The loop of jumpHash: for j < int64(numBuckets) { b = j; key = ...; j = ... }
RECURSIVE JumpLoop(_, _, _, _)
JumpLoop(b, j, key, numBuckets) ==
    IF j < numBuckets
    THEN LET next == JumpNextKey(key)
         IN  JumpLoop(j, JumpStep(j, next, numBuckets), next, numBuckets)
    ELSE b

\* A hash that takes the key modulo the number of buckets in place of the jump
\* hash.
jumpHashByModulo(key, numBuckets) ==
    IF numBuckets <= 0 THEN -1 ELSE BytesMod(key, numBuckets)

\* jumpHash with b starting at 0 in place of -1.
jumpHashFromZero(key, numBuckets) == JumpLoop(0, 0, key, numBuckets)

jumpHash(key, numBuckets) == JumpLoop(-1, 0, key, numBuckets)

(***************************************************************************)
(* Package hashing.  The digest a library hash (hash/crc32, crypto/md5,    *)
(* crypto/sha256) returns for an input is an input of the model: a key is  *)
(* given by the digests its bytes have, alone and followed by a seed.      *)
(***************************************************************************)
HashAlgorithms == {"crc32", "md5", "sha256"}

DefaultHashAlgorithm == "crc32"

\* Digests of the keys themselves.  Under jumpHash with 1, 2, ... buckets
\* digest i of each list stays in bucket 0 until it moves to bucket i - 1 and
\* stays there (i = 1..5); digest 6 moves to the new bucket at every step. 
PlainSums32 ==
    << << 46, 132, 73, 110 >>, << 186, 111, 135, 92 >>, << 79, 61, 78, 123 >>,
       << 77, 194, 166, 39 >>, << 90, 171, 10, 55 >>, << 65, 116, 39, 3 >> >>

PlainSums64 ==
    << << 172, 201, 198, 246, 34, 27, 27, 5 >>,
       << 187, 170, 197, 29, 170, 133, 156, 196 >>,
       << 126, 185, 11, 87, 64, 158, 192, 60 >>,
       << 6, 182, 97, 75, 228, 180, 174, 105 >>,
       << 153, 34, 135, 13, 241, 122, 96, 244 >>,
       << 30, 27, 71, 118, 83, 112, 155, 117 >> >>

\* Digests of a key followed by a seed.  The 32-bit ones are 0, 1, 2, 3, 4
\* modulo 60; the first four 64-bit ones are 0, 1, 2, 3 modulo 12 and the
\* fifth has its top bit set (as an int64 it is -1 modulo 60).
SeededSums32 ==
    << << 211, 110, 38, 16 >>, << 219, 252, 252, 73 >>, << 146, 166, 31, 34 >>,
       << 79, 133, 240, 91 >>, << 143, 57, 44, 240 >> >>

SeededSums64 ==
    << << 35, 141, 56, 13, 236, 86, 96, 216 >>,
       << 48, 203, 24, 154, 247, 113, 218, 125 >>,
       << 112, 62, 46, 213, 129, 185, 22, 34 >>,
       << 32, 54, 148, 125, 134, 91, 148, 255 >>,
       << 252, 175, 11, 19, 229, 251, 146, 209 >> >>

\* A key: which plain digest it has, and which seeded digest it has under each
\* seed: under the seed bytes sb it has seeded digest number
\* (a + c * sb) mod 5, so that over all (a, c) any two seeds that differ
\* modulo 5 meet every pair of seeded digests.
Keys == [plain : DOMAIN PlainSums32, a : 0..4, c : 0..4]

\* []byte(input), and append(strBytes, seedBytes...): the key and the bytes
\* that follow it.
KeyBytes(key, suffix) == [key |-> key, suffix |-> suffix]

\* The digest the library of algorithm algo computes for the bytes.
LibrarySum(algo, bytes) ==
    LET narrow == algo = "crc32"
        plain  == IF narrow THEN PlainSums32 ELSE PlainSums64
        seeded == IF narrow THEN SeededSums32 ELSE SeededSums64
        key    == bytes.key
    IN  IF bytes.suffix = << >> THEN plain[key.plain]
        ELSE seeded[((key.a + (key.c * BytesMod(bytes.suffix, 5))) % 5) + 1]

\* crc32Hash.hash: uint64(h.Sum32()).
crc32Hash(bytes) == << 0, 0, 0, 0 >> \o LibrarySum("crc32", bytes)

\* md5Hash.hash: binary.BigEndian.Uint64(sum[:8]).
md5Hash(bytes) == SubSeq(LibrarySum("md5", bytes), 1, 8)

\* sha256Hash.hash: binary.BigEndian.Uint64(sum[:8]).
sha256Hash(bytes) == SubSeq(LibrarySum("sha256", bytes), 1, 8)

\* NewHashFunction: the Hasher of the algorithm, crc32 by default.
NewHashFunction(algorithm) ==
    CASE algorithm = "crc32"  -> "crc32"
      [] algorithm = "md5"    -> "md5"
      [] algorithm = "sha256" -> "sha256"
      [] OTHER                -> "crc32"

\* h.hash(bytes) through the embedded Hasher.
Hash(h, bytes) ==
    CASE h = "crc32"  -> crc32Hash(bytes)
      [] h = "md5"    -> md5Hash(bytes)
      [] h = "sha256" -> sha256Hash(bytes)

HashString(h, input) == Hash(h, KeyBytes(input, << >>))

HashStringWithSeed(h, input, seed) == Hash(h, KeyBytes(input, U64(seed)))

(***************************************************************************)
(* The hashes of the keys and seeds of the model, computed once.  Each     *)
(* table holds the values of the operator it is built from, and the        *)
(* operator is applied directly outside the table.                         *)
(***************************************************************************)
Seeds == -1..MaxBuckets

HashStringTable ==
    [h \in HashAlgorithms, key \in Keys |-> HashString(h, key)] @@ << >>

HashStringWithSeedTable ==
    [h \in HashAlgorithms, key \in Keys, seed \in Seeds |->
        HashStringWithSeed(h, key, seed)] @@ << >>

PlainDigests == {HashStringTable[x] : x \in DOMAIN HashStringTable}

SeededDigests ==
    {HashStringWithSeedTable[x] : x \in DOMAIN HashStringWithSeedTable}

jumpHashTable ==
    [key \in PlainDigests, numBuckets \in Seeds |-> jumpHash(key, numBuckets)]
        @@ << >>

IntRemTable ==
    [x \in SeededDigests, n \in 1..MaxBuckets |-> IntRem(x, n)] @@ << >>

HashStringOf(h, input) ==
    IF << h, input >> \in DOMAIN HashStringTable
    THEN HashStringTable[h, input] ELSE HashString(h, input)

HashStringWithSeedOf(h, input, seed) ==
    IF << h, input, seed >> \in DOMAIN HashStringWithSeedTable
    THEN HashStringWithSeedTable[h, input, seed]
    ELSE HashStringWithSeed(h, input, seed)

jumpHashOf(key, numBuckets) ==
    IF << key, numBuckets >> \in DOMAIN jumpHashTable
    THEN jumpHashTable[key, numBuckets] ELSE jumpHash(key, numBuckets)

IntRemOf(x, n) ==
    IF << x, n >> \in DOMAIN IntRemTable THEN IntRemTable[x, n] ELSE IntRem(x, n)

(***************************************************************************)
(* mementohash.  A hasher value m is the record of the struct's fields     *)
(* with the hash function it embeds; m.removed is the map of removed       *)
(* buckets, a function from bucket ids to replace records.                 *)
(***************************************************************************)
VARIABLES
    hashFn,       \* mementohash.HashFn: the algorithm of the embedded hasher
    buckets,      \* mementohash.buckets
    lastRemoved,  \* mementohash.lastRemoved
    removed,      \* mementohash.removed
    call,         \* the last call made: its name, argument and result
    before,       \* the hasher as it was before that call
    live,         \* the ids AddBucket has returned and RemoveBucket has not
                  \* removed since
    tracing,      \* whether the variables below are kept
    prior,        \* the call made before the last one, and the hasher before it
    issued,       \* every id AddBucket has ever returned
    pending,      \* the ids removed and not returned by AddBucket since, in
                  \* the order of their removal
    pendingAt,    \* pending, and the keys of removed, as the last RemoveBucket
                  \* left them
    adds,         \* the ids AddBucket has returned since the last RemoveBucket
    fresh,        \* no RemoveBucket has been called on this hasher
    nodeToBucket, \* serverPool.nodeToBucket of the load balancer's pool
    bucketToNode, \* serverPool.bucketToNode of the load balancer's pool
    spBefore,     \* the pool as it was before the last call
    misused       \* RemoveBucket has been called with an id that was neither
                  \* live nor past the ring

hasherVars == << hashFn, buckets, lastRemoved, removed >>
traceVars == << prior, issued, pending, pendingAt, adds, fresh >>
poolVars == << nodeToBucket, bucketToNode >>
vars == << hashFn, buckets, lastRemoved, removed, call, before, live, tracing,
           prior, issued, pending, pendingAt, adds, fresh,
           nodeToBucket, bucketToNode, spBefore, misused >>

\* The hasher the variables hold.
Self ==
    [hashFn |-> hashFn, buckets |-> buckets, lastRemoved |-> lastRemoved,
     removed |-> removed]

\* The struct replace.
Replace(bucket, replacement, prevRemoved) ==
    [bucket |-> bucket, replacement |-> replacement, prevRemoved |-> prevRemoved]

\* len(m.removed).
LenRemoved(m) == Cardinality(DOMAIN m.removed)

\* Size without the removed buckets taken off.
SizeOfRing(m) == m.buckets

\* Size.
Size(m) == m.buckets - LenRemoved(m)

\* remove with the last two fields of the record in each other's place.
removeSwapped(m, bucket, replacement, prevRemoved) ==
    [m  |-> [m EXCEPT !.removed =
                [b \in DOMAIN m.removed \cup {bucket} |->
                    IF b = bucket THEN Replace(bucket, prevRemoved, replacement)
                    ELSE m.removed[b]]],
     ret |-> bucket]

\* remove: m.removed[bucket] = replace{bucket, replacement, prevRemoved}.
remove(m, bucket, replacement, prevRemoved) ==
    [m  |-> [m EXCEPT !.removed =
                [b \in DOMAIN m.removed \cup {bucket} |->
                    IF b = bucket THEN Replace(bucket, replacement, prevRemoved)
                    ELSE m.removed[b]]],
     ret |-> bucket]

\* replace: the replacement of a removed bucket, else -1.
replace(m, bucket) ==
    IF bucket \in DOMAIN m.removed THEN m.removed[bucket].replacement ELSE -1

\* restore without the delete of the entry.
restoreWithoutDelete(m, bucket) ==
    IF LenRemoved(m) = 0 THEN [m |-> m, ret |-> bucket + 1]
    ELSE IF bucket \in DOMAIN m.removed
    THEN [m |-> m, ret |-> m.removed[bucket].prevRemoved]
    ELSE [m |-> m, ret |-> -1]

\* restore.
restore(m, bucket) ==
    IF LenRemoved(m) = 0 THEN [m |-> m, ret |-> bucket + 1]
    ELSE IF bucket \in DOMAIN m.removed
    THEN [m   |-> [m EXCEPT !.removed =
                      [b \in DOMAIN m.removed \ {bucket} |-> m.removed[b]]],
          ret |-> m.removed[bucket].prevRemoved]
    ELSE [m |-> m, ret |-> -1]

\* The inner loop of GetBucket without bucket = r: once entered it reads the
\* same entry for ever.
FollowChainInPlace(m, bucket, r, bound, fuel) ==
    IF r >= bound THEN [status |-> "loop", bucket |-> bucket, r |-> r]
    ELSE [status |-> "ok", bucket |-> bucket, r |-> r]

\* The inner loop of GetBucket: for r >= replace { bucket = r; r = m.replace(bucket) }.
\* It ends with the bucket reached and its r.  A map of n entries lets the
\* loop visit at most n removed buckets before one repeats, so more than n
\* iterations mean it never ends.
RECURSIVE FollowChain(_, _, _, _, _)
FollowChain(m, bucket, r, bound, fuel) ==
    IF r >= bound
    THEN IF fuel = 0 THEN [status |-> "loop", bucket |-> bucket, r |-> r]
         ELSE FollowChain(m, r, replace(m, r), bound, fuel - 1)
    ELSE [status |-> "ok", bucket |-> bucket, r |-> r]

\* The outer loop of GetBucket: for replace >= 0 { ... }, counting its
\* iterations.  replace = 0 makes the % panic (integer divide by zero).
RECURSIVE Redirect(_, _, _, _, _, _)
Redirect(m, key, bucket, bound, outer, fuel) ==
    IF bound < 0 THEN [status |-> "ok", bucket |-> bucket, outer |-> outer]
    ELSE IF bound = 0
    THEN [status |-> "panic", bucket |-> bucket, outer |-> outer + 1]
    ELSE IF fuel = 0
    THEN [status |-> "loop", bucket |-> bucket, outer |-> outer]
    ELSE LET b1    == IntRemOf(HashStringWithSeedOf(m.hashFn, key, bucket), bound)
             chain == FollowChain(m, b1, replace(m, b1), bound,
                                  LenRemoved(m))
         IN  IF chain.status = "loop"
             THEN [status |-> "loop", bucket |-> chain.bucket, outer |-> outer + 1]
             ELSE Redirect(m, key, chain.bucket, chain.r, outer + 1, fuel - 1)

\* GetBucket with the jump hash taken over the working set size Size() in
\* place of m.buckets.
GetBucketRunOverSize(m, key) ==
    LET bucket == jumpHashOf(HashStringOf(m.hashFn, key), m.buckets - LenRemoved(m))
    IN  Redirect(m, key, bucket, replace(m, bucket), 0, LenRemoved(m) + 1)

\* GetBucket with the first bucket taken from the seeded hash of the key.
GetBucketRunSeeded(m, key) ==
    LET bucket == jumpHashOf(HashStringWithSeedOf(m.hashFn, key, 0), m.buckets)
    IN  Redirect(m, key, bucket, replace(m, bucket), 0, LenRemoved(m) + 1)

\* GetBucket, with how the call ended: status "ok" and the bucket returned,
\* "panic", or "loop" when it does not end; outer is the number of iterations
\* of the outer loop.
GetBucketRun(m, key) ==
    LET bucket == jumpHashOf(HashStringOf(m.hashFn, key), m.buckets)
    IN  Redirect(m, key, bucket, replace(m, bucket), 0, LenRemoved(m) + 1)

\* The buckets the inner loop of GetBucket stands on, the first being the
\* one computed by the % of line 88.  A loop that comes back to a bucket shows
\* it twice within LenRemoved(m) + 1 iterations.
RECURSIVE ChainVisits(_, _, _, _, _)
ChainVisits(m, bucket, r, bound, fuel) ==
    IF r >= bound /\ fuel > 0
    THEN << bucket >> \o ChainVisits(m, r, replace(m, r), bound, fuel - 1)
    ELSE << bucket >>

\* The iterations of the outer loop of GetBucket: the value of replace each
\* one starts with and the buckets its inner loop stands on (none when the %
\* panics).
RECURSIVE RedirectSteps(_, _, _, _, _)
RedirectSteps(m, key, bucket, bound, fuel) ==
    IF bound < 0 \/ fuel = 0 THEN << >>
    ELSE IF bound = 0 THEN << [bound |-> bound, visits |-> << >>] >>
    ELSE LET b1    == IntRemOf(HashStringWithSeedOf(m.hashFn, key, bucket), bound)
             chain == FollowChain(m, b1, replace(m, b1), bound,
                                  LenRemoved(m))
             step  == [bound  |-> bound,
                       visits |-> ChainVisits(m, b1, replace(m, b1), bound,
                                              LenRemoved(m) + 1)]
         IN  IF chain.status = "loop" THEN << step >>
             ELSE << step >> \o
                  RedirectSteps(m, key, chain.bucket, chain.r, fuel - 1)

GetBucketSteps(m, key) ==
    LET bucket == jumpHashOf(HashStringOf(m.hashFn, key), m.buckets)
    IN  RedirectSteps(m, key, bucket, replace(m, bucket), LenRemoved(m) + 2)

\* The removed buckets met from bucket on along the prevRemoved fields, which
\* are the buckets successive AddBucket calls restore.  A walk that comes
\* back to a bucket shows it twice within LenRemoved(m) + 1 steps.
RECURSIVE StackFrom(_, _, _)
StackFrom(m, bucket, fuel) ==
    IF bucket \in DOMAIN m.removed /\ fuel > 0
    THEN << bucket >> \o StackFrom(m, m.removed[bucket].prevRemoved, fuel - 1)
    ELSE << >>

RemovalStack(m) == StackFrom(m, m.lastRemoved, LenRemoved(m) + 1)

\* The bucket reached from bucket by taking m.replace again and again until
\* it answers -1 (the bucket is not removed); -1 when that has not happened
\* after fuel steps, which with fuel > len(m.removed) means it never does.
RECURSIVE ReplacementEnd(_, _, _)
ReplacementEnd(m, bucket, fuel) ==
    IF replace(m, bucket) < 0 THEN bucket
    ELSE IF fuel = 0 THEN -1
    ELSE ReplacementEnd(m, replace(m, bucket), fuel - 1)

\* GetBucket that writes the bucket it found into the entry of the removed
\* bucket the key first fell on.
GetBucketCompressing(m, key) ==
    LET first == jumpHashOf(HashStringOf(m.hashFn, key), m.buckets)
        run   == GetBucketRun(m, key)
    IN  [m   |-> IF first \in DOMAIN m.removed /\ run.status = "ok"
                 THEN [m EXCEPT !.removed[first].replacement = run.bucket]
                 ELSE m,
         run |-> run]

\* GetBucket as a method of m: the hasher after the call, whose fields the
\* method only reads, and how the call ended.
GetBucket(m, key) == [m |-> m, run |-> GetBucketRun(m, key)]

\* AddBucket that takes the next id of the ring in place of the last removed
\* bucket.
AddBucketAtEnd(m) ==
    LET bucket   == m.buckets
        restored == restore(m, bucket)
        m1       == [restored.m EXCEPT !.lastRemoved = restored.ret]
    IN  [m   |-> IF m1.buckets <= bucket
                 THEN [m1 EXCEPT !.buckets = bucket + 1] ELSE m1,
         ret |-> bucket]

\* AddBucket without the growth of m.buckets.
AddBucketKeepsBuckets(m) ==
    LET bucket   == m.lastRemoved
        restored == restore(m, bucket)
    IN  [m   |-> [restored.m EXCEPT !.lastRemoved = restored.ret],
         ret |-> bucket]

\* AddBucket that grows m.buckets at every call.
AddBucketGrowingAlways(m) ==
    LET bucket   == m.lastRemoved
        restored == restore(m, bucket)
        m1       == [restored.m EXCEPT !.lastRemoved = restored.ret]
    IN  [m   |-> [m1 EXCEPT !.buckets = m1.buckets + 1],
         ret |-> bucket]

\* AddBucket.
AddBucket(m) ==
    LET bucket   == m.lastRemoved
        restored == restore(m, bucket)
        m1       == [restored.m EXCEPT !.lastRemoved = restored.ret]
    IN  [m   |-> IF m1.buckets <= bucket
                 THEN [m1 EXCEPT !.buckets = bucket + 1] ELSE m1,
         ret |-> bucket]

\* RemoveBucket whose tail shortcut leaves m.buckets as it is.
RemoveBucketTailKeepsBuckets(m, bucket) ==
    IF bucket >= m.buckets THEN [m |-> m, ret |-> -1]
    ELSE IF LenRemoved(m) = 0 /\ bucket = m.buckets - 1
    THEN [m |-> [m EXCEPT !.lastRemoved = bucket], ret |-> bucket]
    ELSE LET rec == remove(m, bucket, Size(m) - 1, m.lastRemoved)
         IN  [m |-> [rec.m EXCEPT !.lastRemoved = rec.ret], ret |-> bucket]

\* RemoveBucket whose tail shortcut leaves m.lastRemoved as it is.
RemoveBucketTailKeepsLastRemoved(m, bucket) ==
    IF bucket >= m.buckets THEN [m |-> m, ret |-> -1]
    ELSE IF LenRemoved(m) = 0 /\ bucket = m.buckets - 1
    THEN [m |-> [m EXCEPT !.buckets = bucket], ret |-> bucket]
    ELSE LET rec == remove(m, bucket, Size(m) - 1, m.lastRemoved)
         IN  [m |-> [rec.m EXCEPT !.lastRemoved = rec.ret], ret |-> bucket]

\* RemoveBucket that records the size of the working set before the removal
\* as the replacement, in place of the size after it.
RemoveBucketRecordsSizeBefore(m, bucket) ==
    IF bucket >= m.buckets THEN [m |-> m, ret |-> -1]
    ELSE IF LenRemoved(m) = 0 /\ bucket = m.buckets - 1
    THEN [m |-> [m EXCEPT !.lastRemoved = bucket, !.buckets = bucket],
          ret |-> bucket]
    ELSE LET rec == remove(m, bucket, Size(m), m.lastRemoved)
         IN  [m |-> [rec.m EXCEPT !.lastRemoved = rec.ret], ret |-> bucket]

\* RemoveBucket that records m.buckets - 1 as the replacement.
RemoveBucketRecordsRingEnd(m, bucket) ==
    IF bucket >= m.buckets THEN [m |-> m, ret |-> -1]
    ELSE IF LenRemoved(m) = 0 /\ bucket = m.buckets - 1
    THEN [m |-> [m EXCEPT !.lastRemoved = bucket, !.buckets = bucket],
          ret |-> bucket]
    ELSE LET rec == remove(m, bucket, m.buckets - 1, m.lastRemoved)
         IN  [m |-> [rec.m EXCEPT !.lastRemoved = rec.ret], ret |-> bucket]

\* RemoveBucket that records m.buckets as the replacement.
RemoveBucketRecordsBuckets(m, bucket) ==
    IF bucket >= m.buckets THEN [m |-> m, ret |-> -1]
    ELSE IF LenRemoved(m) = 0 /\ bucket = m.buckets - 1
    THEN [m |-> [m EXCEPT !.lastRemoved = bucket, !.buckets = bucket],
          ret |-> bucket]
    ELSE LET rec == remove(m, bucket, m.buckets, m.lastRemoved)
         IN  [m |-> [rec.m EXCEPT !.lastRemoved = rec.ret], ret |-> bucket]

\* RemoveBucket that answers -1 for a bucket that is removed already.
RemoveBucketRefusingRemoved(m, bucket) ==
    IF bucket >= m.buckets \/ bucket \in DOMAIN m.removed
    THEN [m |-> m, ret |-> -1]
    ELSE IF LenRemoved(m) = 0 /\ bucket = m.buckets - 1
    THEN [m |-> [m EXCEPT !.lastRemoved = bucket, !.buckets = bucket],
          ret |-> bucket]
    ELSE LET rec == remove(m, bucket, Size(m) - 1, m.lastRemoved)
         IN  [m |-> [rec.m EXCEPT !.lastRemoved = rec.ret], ret |-> bucket]

\* RemoveBucket that records the bucket itself as prevRemoved.
RemoveBucketLinksToItself(m, bucket) ==
    IF bucket >= m.buckets THEN [m |-> m, ret |-> -1]
    ELSE IF LenRemoved(m) = 0 /\ bucket = m.buckets - 1
    THEN [m |-> [m EXCEPT !.lastRemoved = bucket, !.buckets = bucket],
          ret |-> bucket]
    ELSE LET rec == remove(m, bucket, Size(m) - 1, bucket)
         IN  [m |-> [rec.m EXCEPT !.lastRemoved = rec.ret], ret |-> bucket]

\* RemoveBucket without the test of bucket against m.buckets.
RemoveBucketUnchecked(m, bucket) ==
    IF LenRemoved(m) = 0 /\ bucket = m.buckets - 1
    THEN [m |-> [m EXCEPT !.lastRemoved = bucket, !.buckets = bucket],
          ret |-> bucket]
    ELSE LET rec == remove(m, bucket, Size(m) - 1, m.lastRemoved)
         IN  [m |-> [rec.m EXCEPT !.lastRemoved = rec.ret], ret |-> bucket]

\* RemoveBucket.
RemoveBucket(m, bucket) ==
    IF bucket >= m.buckets THEN [m |-> m, ret |-> -1]
    ELSE IF LenRemoved(m) = 0 /\ bucket = m.buckets - 1
    THEN [m |-> [m EXCEPT !.lastRemoved = bucket, !.buckets = bucket],
          ret |-> bucket]
    ELSE LET rec == remove(m, bucket, Size(m) - 1, m.lastRemoved)
         IN  [m |-> [rec.m EXCEPT !.lastRemoved = rec.ret], ret |-> bucket]

\* NewMementoHasher with lastRemoved set to a sentinel of -1.
NewMementoHasherWithSentinel(hashAlgo) ==
    [hashFn |-> NewHashFunction(hashAlgo), buckets |-> 0, lastRemoved |-> -1,
     removed |-> << >>]

\* NewMementoHasher: an empty map, the other fields at their zero values.
NewMementoHasher(hashAlgo) ==
    [hashFn |-> NewHashFunction(hashAlgo), buckets |-> 0, lastRemoved |-> 0,
     removed |-> << >>]

\* NewConsistentHasher.
NewConsistentHasher == NewMementoHasher(DefaultHashAlgorithm)

(***************************************************************************)
(* The server pool.  A node is its Name(): ServerNode holds nothing else.  *)
(***************************************************************************)
NodeNames == {"a", "b"}

\* error values: nil, errors.New(text) (and fmt.Errorf of a text without
\* verbs), fmt.Errorf(format, d).
Nil == [nil |-> TRUE, format |-> "", args |-> << >>]
ErrorsNew(text) == [nil |-> FALSE, format |-> text, args |-> << >>]
Errorf(format, d) == [nil |-> FALSE, format |-> format, args |-> << d >>]

\* The nil Node.
NilNode == "nil"

\* A Go map with the key set to the value, and with the key deleted.
MapSet(f, k, v) == [x \in DOMAIN f \cup {k} |-> IF x = k THEN v ELSE f[x]]
MapDelete(f, k) == [x \in DOMAIN f \ {k} |-> f[x]]

\* The pool in the variables.
Pool == [nodeToBucket |-> nodeToBucket, bucketToNode |-> bucketToNode]

NewServerPool == [nodeToBucket |-> << >>, bucketToNode |-> << >>]

\* AddNode that writes nodeToBucket before it looks the node up.
AddNodeWritingFirst(sp, node, bucket) ==
    IF bucket \in DOMAIN sp.bucketToNode
    THEN [sp |-> sp, err |-> Errorf("bucket %d already exists", bucket)]
    ELSE IF node \in DOMAIN sp.nodeToBucket
    THEN [sp  |-> [sp EXCEPT !.nodeToBucket = MapSet(@, node, bucket)],
          err |-> ErrorsNew("node already exists")]
    ELSE [sp  |-> [nodeToBucket |-> MapSet(sp.nodeToBucket, node, bucket),
                   bucketToNode |-> MapSet(sp.bucketToNode, bucket, node)],
          err |-> Nil]

\* AddNode without the look-up of the bucket in bucketToNode.
AddNodeOverBucket(sp, node, bucket) ==
    IF node \in DOMAIN sp.nodeToBucket
    THEN [sp |-> sp, err |-> ErrorsNew("node already exists")]
    ELSE [sp  |-> [nodeToBucket |-> MapSet(sp.nodeToBucket, node, bucket),
                   bucketToNode |-> MapSet(sp.bucketToNode, bucket, node)],
          err |-> Nil]

\* serverPool.AddNode.
AddNode(sp, node, bucket) ==
    IF bucket \in DOMAIN sp.bucketToNode
    THEN [sp |-> sp, err |-> Errorf("bucket %d already exists", bucket)]
    ELSE IF node \in DOMAIN sp.nodeToBucket
    THEN [sp |-> sp, err |-> ErrorsNew("node already exists")]
    ELSE [sp  |-> [nodeToBucket |-> MapSet(sp.nodeToBucket, node, bucket),
                   bucketToNode |-> MapSet(sp.bucketToNode, bucket, node)],
          err |-> Nil]

\* serverPool.RemoveNode: the entry of nodeToBucket is deleted before
\* bucketToNode is looked at.
RemoveNode(sp, node) ==
    IF node \notin DOMAIN sp.nodeToBucket
    THEN [sp |-> sp, bucket |-> -1, node |-> NilNode,
          err |-> ErrorsNew("node not found")]
    ELSE LET bucket == sp.nodeToBucket[node]
             sp1    == [sp EXCEPT !.nodeToBucket = MapDelete(@, node)]
         IN  IF bucket \notin DOMAIN sp.bucketToNode
             THEN [sp |-> sp1, bucket |-> -1, node |-> NilNode,
                   err |-> ErrorsNew("bucket not found")]
             ELSE [sp     |-> [sp1 EXCEPT !.bucketToNode = MapDelete(@, bucket)],
                   bucket |-> bucket,
                   node   |-> sp.bucketToNode[bucket],
                   err    |-> Nil]

\* serverPool.GetNode.
PoolGetNode(sp, bucket) ==
    IF bucket \in DOMAIN sp.bucketToNode
    THEN [node |-> sp.bucketToNode[bucket], ok |-> TRUE]
    ELSE [node |-> NilNode, ok |-> FALSE]

(***************************************************************************)
(* The load balancer: a server pool and a consistent hasher.               *)
(***************************************************************************)
NewLoadBalancer == [sp |-> NewServerPool, ch |-> NewConsistentHasher]

\* The for loop of AddNodes from nodes[i] on.
RECURSIVE AddNodesFrom(_, _, _)
AddNodesFrom(lb, nodes, i) ==
    IF i > Len(nodes) THEN [lb |-> lb, err |-> Nil]
    ELSE LET added == AddBucket(lb.ch)
             put   == AddNode(lb.sp, nodes[i], added.ret)
         IN  IF ~put.err.nil
             THEN [lb |-> [sp |-> put.sp, ch |-> added.m], err |-> put.err]
             ELSE AddNodesFrom([sp |-> put.sp, ch |-> added.m], nodes, i + 1)

\* AddNodes without the test of len(nodes).
AddNodesUnchecked(lb, nodes) == AddNodesFrom(lb, nodes, 1)

\* loadBalancer.AddNodes.
AddNodes(lb, nodes) ==
    IF Len(nodes) = 0 THEN [lb |-> lb, err |-> ErrorsNew("no nodes to add")]
    ELSE AddNodesFrom(lb, nodes, 1)

\* The for loop of RemoveNodes without the call of RemoveBucket.
RECURSIVE RemoveNodesKeepingBuckets(_, _, _)
RemoveNodesKeepingBuckets(lb, nodes, i) ==
    IF i > Len(nodes) THEN [lb |-> lb, err |-> Nil]
    ELSE LET took == RemoveNode(lb.sp, nodes[i])
         IN  IF ~took.err.nil
             THEN [lb |-> [sp |-> took.sp, ch |-> lb.ch], err |-> took.err]
             ELSE RemoveNodesKeepingBuckets([sp |-> took.sp, ch |-> lb.ch],
                                            nodes, i + 1)

\* The for loop of RemoveNodes from nodes[i] on.
RECURSIVE RemoveNodesFrom(_, _, _)
RemoveNodesFrom(lb, nodes, i) ==
    IF i > Len(nodes) THEN [lb |-> lb, err |-> Nil]
    ELSE LET took == RemoveNode(lb.sp, nodes[i])
         IN  IF ~took.err.nil
             THEN [lb |-> [sp |-> took.sp, ch |-> lb.ch], err |-> took.err]
             ELSE RemoveNodesFrom(
                      [sp |-> took.sp, ch |-> RemoveBucket(lb.ch, took.bucket).m],
                      nodes, i + 1)

\* RemoveNodes without the test of len(nodes) against Size().
RemoveNodesUnchecked(lb, nodes) ==
    IF Len(nodes) = 0 THEN [lb |-> lb, err |-> ErrorsNew("no nodes to remove")]
    ELSE RemoveNodesFrom(lb, nodes, 1)

\* loadBalancer.RemoveNodes.
RemoveNodes(lb, nodes) ==
    IF Len(nodes) = 0 THEN [lb |-> lb, err |-> ErrorsNew("no nodes to remove")]
    ELSE IF Len(nodes) > Size(lb.ch)
    THEN [lb  |-> lb,
          err |-> Errorf("cannot remove more nodes than the size of the working set %d",
                         Size(lb.ch))]
    ELSE RemoveNodesFrom(lb, nodes, 1)

\* The key of length 0; GetNode takes no digest of it.
EmptyKey == [plain |-> 0, a |-> 0, c |-> 0]

\* loadBalancer.GetNode: the node and the error returned, whether the call
\* returned or panicked, and whether the hasher was asked for a bucket.
GetNode(lb, key) ==
    IF key = EmptyKey
    THEN [lb |-> lb, node |-> NilNode, err |-> ErrorsNew("key cannot be empty"),
          status |-> "ok", hashed |-> FALSE]
    ELSE LET got   == GetBucket(lb.ch, key)
             found == PoolGetNode(lb.sp, got.run.bucket)
             lb1   == [lb EXCEPT !.ch = got.m]
         IN  IF got.run.status # "ok"
             THEN [lb |-> lb1, node |-> NilNode, err |-> Nil,
                   status |-> got.run.status, hashed |-> TRUE]
             ELSE IF ~found.ok
             THEN [lb |-> lb1, node |-> NilNode,
                   err |-> Errorf("node not found for bucket %d", got.run.bucket),
                   status |-> "ok", hashed |-> TRUE]
             ELSE [lb |-> lb1, node |-> found.node, err |-> Nil,
                   status |-> "ok", hashed |-> TRUE]

\* loadBalancer.NodeCount.
NodeCount(lb) == Size(lb.ch)

(***************************************************************************)
(* The hasher as a state machine: one action per method of                 *)
(* ConsistentHasher, called by a client that removes live buckets, or asks  *)
(* for the removal of an id the hasher does not hold (bucket >= m.buckets).*)
(***************************************************************************)
NoCall == [name |-> "NewMementoHasher", arg |-> -1, ret |-> -1, status |-> "ok"]

InitHasher ==
    /\ \E algo \in HashAlgorithms :
          /\ hashFn = NewMementoHasher(algo).hashFn
          /\ buckets = NewMementoHasher(algo).buckets
          /\ lastRemoved = NewMementoHasher(algo).lastRemoved
          /\ removed = NewMementoHasher(algo).removed
    /\ call = NoCall
    /\ before = Self
    /\ live = {}
    /\ prior = [call |-> NoCall, before |-> Self]
    /\ issued = {}
    /\ pending = << >>
    /\ pendingAt = [order |-> << >>, recorded |-> {}]
    /\ adds = << >>
    /\ fresh = TRUE
    /\ nodeToBucket = NewServerPool.nodeToBucket
    /\ bucketToNode = NewServerPool.bucketToNode
    /\ spBefore = NewServerPool
    /\ misused = FALSE

Init == InitHasher /\ tracing = FALSE

InitTraced == InitHasher /\ tracing = TRUE

\* The hasher variables take the fields of m.
Becomes(m) ==
    /\ hashFn' = m.hashFn
    /\ buckets' = m.buckets
    /\ lastRemoved' = m.lastRemoved
    /\ removed' = m.removed

\* The last call and the hasher before it are noted.
Noted(name, arg, ret, status) ==
    /\ call' = [name |-> name, arg |-> arg, ret |-> ret, status |-> status]
    /\ before' = Self
    /\ prior' = IF tracing THEN [call |-> call, before |-> before] ELSE prior
    /\ UNCHANGED << tracing, poolVars, spBefore, misused >>

\* s without its first occurrence of x.
RECURSIVE Without(_, _)
Without(s, x) ==
    IF s = << >> THEN << >>
    ELSE IF Head(s) = x THEN Tail(s)
    ELSE << Head(s) >> \o Without(Tail(s), x)

CallAddBucket ==
    LET done == AddBucket(Self)
    IN  /\ done.m.buckets <= MaxBuckets
        /\ Becomes(done.m)
        /\ Noted("AddBucket", -1, done.ret, "ok")
        /\ live' = live \cup {done.ret}
        /\ IF tracing
           THEN /\ issued' = issued \cup {done.ret}
                /\ pending' = Without(pending, done.ret)
                /\ adds' = Append(adds, done.ret)
                /\ UNCHANGED << pendingAt, fresh >>
           ELSE UNCHANGED << issued, pending, pendingAt, adds, fresh >>

CallRemoveBucket(bucket) ==
    LET done == RemoveBucket(Self, bucket)
    IN  /\ bucket \in live \/ bucket >= buckets
        /\ Becomes(done.m)
        /\ Noted("RemoveBucket", bucket, done.ret, "ok")
        /\ live' = IF done.ret = bucket THEN live \ {bucket} ELSE live
        /\ IF tracing /\ done.ret = bucket
           THEN /\ pending' = Append(pending, bucket)
                /\ pendingAt' = [order    |-> Append(pending, bucket),
                                 recorded |-> DOMAIN done.m.removed]
                /\ adds' = << >>
                /\ fresh' = FALSE
                /\ UNCHANGED issued
           ELSE UNCHANGED << issued, pending, pendingAt, adds, fresh >>

\* GetBucket of some key: the successor depends on the key through how the
\* call ends only.
CallGetBucket ==
    \E done \in {GetBucket(Self, key) : key \in Keys} :
        /\ Becomes(done.m)
        /\ Noted("GetBucket", -1, done.run.bucket, done.run.status)
        /\ UNCHANGED << live, issued, pending, pendingAt, adds, fresh >>

CallSize ==
    /\ Noted("Size", -1, Size(Self), "ok")
    /\ UNCHANGED << hasherVars, live, issued, pending, pendingAt, adds, fresh >>

Next ==
    \/ CallAddBucket
    \/ \E bucket \in 0..(MaxBuckets - 1) : CallRemoveBucket(bucket)
    \/ CallGetBucket
    \/ CallSize

Spec == Init /\ [][Next]_vars

\* The calls that change the hasher, with the trace of them kept.
NextTraced ==
    \/ CallAddBucket
    \/ \E bucket \in 0..(MaxBuckets - 1) : CallRemoveBucket(bucket)

SpecTraced == InitTraced /\ [][NextTraced]_vars

\* The hashers that sequences of AddBucket and RemoveBucket calls reach, with
\* no lookup between the calls and no trace kept.
SpecMutators == Init /\ [][NextTraced]_vars

\* The ids below the ring's end that a caller who does not keep to live
\* buckets passes to RemoveBucket: ids below zero and removed ids.
AnyIds == (-2)..(MaxBuckets - 1)

\* RemoveBucket of an id that is not live and is below m.buckets, on a
\* hasher that has been called with live ids and ids past the ring until now.
CallRemoveAnyBucket(bucket) ==
    LET done == RemoveBucket(Self, bucket)
    IN  /\ ~misused
        /\ bucket \notin live
        /\ bucket < buckets
        /\ Becomes(done.m)
        /\ call' = [name |-> "RemoveBucket", arg |-> bucket, ret |-> done.ret,
                    status |-> "ok"]
        /\ before' = Self
        /\ misused' = TRUE
        /\ UNCHANGED << live, tracing, traceVars, poolVars, spBefore >>

NextAnyRemoval ==
    \/ CallAddBucket
    \/ \E bucket \in 0..(MaxBuckets - 1) : CallRemoveBucket(bucket)
    \/ \E bucket \in AnyIds : CallRemoveAnyBucket(bucket)

\* The hashers reached when RemoveBucket is called once with an id that is
\* not live, among calls with live ids.
SpecAnyRemoval == Init /\ [][NextAnyRemoval]_vars

(***************************************************************************)
(* The load balancer as a state machine: one action per method of          *)
(* LoadBalancer, on the load balancer made by NewLoadBalancer.             *)
(***************************************************************************)
\* The load balancer in the variables.
LB == [sp |-> Pool, ch |-> Self]

InitLoadBalancer ==
    /\ InitHasher
    /\ Self = NewLoadBalancer.ch
    /\ Pool = NewLoadBalancer.sp

InitLB == InitLoadBalancer /\ tracing = FALSE

InitLBTraced == InitLoadBalancer /\ tracing = TRUE

\* The lists of at most MaxNodes nodes.
NodeLists == UNION {[1..n -> NodeNames] : n \in 0..MaxNodes}

\* The variables take the fields of lb, and the call is noted.
LBBecomes(lb, name, arg, ret, status) ==
    /\ Becomes(lb.ch)
    /\ nodeToBucket' = lb.sp.nodeToBucket
    /\ bucketToNode' = lb.sp.bucketToNode
    /\ call' = [name |-> name, arg |-> arg, ret |-> ret, status |-> status]
    /\ before' = Self
    /\ spBefore' = Pool
    /\ prior' = IF tracing THEN [call |-> call, before |-> before] ELSE prior
    /\ UNCHANGED << tracing, live, issued, pending, pendingAt, adds, fresh,
                    misused >>

CallAddNodes(nodes) ==
    LET done == AddNodes(LB, nodes)
    IN  /\ done.lb.ch.buckets <= MaxBuckets
        /\ LBBecomes(done.lb, "AddNodes", nodes, done.err, "ok")

CallRemoveNodes(nodes) ==
    LET done == RemoveNodes(LB, nodes)
    IN  LBBecomes(done.lb, "RemoveNodes", nodes, done.err, "ok")

\* GetNode of the empty key or of some other key: the successor depends on
\* the key through the result of the call only.
CallGetNode ==
    \E done \in {GetNode(LB, key) : key \in Keys \cup {EmptyKey}} :
        LBBecomes(done.lb, "GetNode", done.hashed,
                  [node |-> done.node, err |-> done.err], done.status)

CallNodeCount == LBBecomes(LB, "NodeCount", << >>, NodeCount(LB), "ok")

NextLB ==
    \/ \E nodes \in NodeLists : CallAddNodes(nodes)
    \/ \E nodes \in NodeLists : CallRemoveNodes(nodes)
    \/ CallGetNode
    \/ CallNodeCount

SpecLB == InitLB /\ [][NextLB]_vars

\* The calls that change the load balancer, with the call before the last
\* one kept.
NextLBTraced ==
    \/ \E nodes \in NodeLists : CallAddNodes(nodes)
    \/ \E nodes \in NodeLists : CallRemoveNodes(nodes)

SpecLBTraced == InitLBTraced /\ [][NextLBTraced]_vars

(***************************************************************************)
(* The server pool as a state machine: one action per method of ServerPool *)
(* that reads or writes the two maps, called with any node and bucket.     *)
(***************************************************************************)
\* The pool variables take the fields of sp, and the call is noted.
PoolBecomes(sp, name, arg, ret) ==
    /\ nodeToBucket' = sp.nodeToBucket
    /\ bucketToNode' = sp.bucketToNode
    /\ call' = [name |-> name, arg |-> arg, ret |-> ret, status |-> "ok"]
    /\ spBefore' = Pool
    /\ UNCHANGED << hasherVars, before, live, tracing, traceVars, misused >>

CallAddNode(node, bucket) ==
    LET done == AddNode(Pool, node, bucket)
    IN  PoolBecomes(done.sp, "AddNode", [node |-> node, bucket |-> bucket],
                    done.err)

CallRemoveNode(node) ==
    LET done == RemoveNode(Pool, node)
    IN  PoolBecomes(done.sp, "RemoveNode", node,
                    [bucket |-> done.bucket, node |-> done.node, err |-> done.err])

CallPoolGetNode(bucket) ==
    PoolBecomes(Pool, "GetNode", bucket, PoolGetNode(Pool, bucket))

NextPool ==
    \/ \E node \in NodeNames, bucket \in 0..(MaxBuckets - 1) :
          CallAddNode(node, bucket)
    \/ \E node \in NodeNames : CallRemoveNode(node)
    \/ \E bucket \in -1..(MaxBuckets - 1) : CallPoolGetNode(bucket)

SpecPool == InitLB /\ [][NextPool]_vars

(***************************************************************************)
(* Properties.                                                             *)
(***************************************************************************)
\* How GetBucket ends for the key on the hasher m.
Lookup(m, key) == GetBucketRun(m, key)

\* The run of a lookup returned normally with the bucket b.
Returned(run, b) == run.status = "ok" /\ run.bucket = b

\* Two runs of lookups ended the same way.
SameEnd(run1, run2) ==
    run1.status = run2.status /\ run1.bucket = run2.bucket

\* The ids of m that exist and are not removed.
LiveIds(m) == (0..(m.buckets - 1)) \ DOMAIN m.removed

\* C1: while the hasher has a live bucket, GetBucket returns for every key an
\* id in [0, buckets) that is not a key of removed.
C1_LookupReturnsLiveBucket ==
    Size(Self) > 0 =>
        \A key \in Keys :
            LET run == Lookup(Self, key)
            IN  run.status = "ok" /\ run.bucket \in LiveIds(Self)

\* The last call was RemoveBucket of a live bucket, and removed it.
Removing == call.name = "RemoveBucket" /\ call.ret = call.arg

\* The last call was AddBucket.
Adding == call.name = "AddBucket"

\* C2: RemoveBucket(b) of a live b leaves GetBucket(k) as it was for every key
\* k that GetBucket did not map to b before the removal.
C2_StableUnderRemoval ==
    Removing =>
        \A key \in Keys :
            LET pre  == Lookup(before, key)
                post == Lookup(Self, key)
            IN  ~Returned(pre, call.arg) => SameEnd(pre, post)

\* Some key was on bucket b before the call, and some key was on a bucket
\* other than b that is live after the call, where it has stayed.
MovedOffAndStayed(b) ==
    /\ \E key \in Keys : Returned(Lookup(before, key), b)
    /\ \E key \in Keys :
          LET pre == Lookup(before, key)
          IN  /\ ~Returned(pre, b)
              /\ pre.bucket \in LiveIds(Self)
              /\ SameEnd(pre, Lookup(Self, key))

\* A removal recorded in removed, after an earlier one, with a key on the
\* removed bucket and a key that stayed on another.
C2_RecordedRemovalReached ==
    /\ Removing
    /\ before.removed # << >>
    /\ call.arg \in DOMAIN removed
    /\ MovedOffAndStayed(call.arg)

\* A removal by the tail shortcut, with a key on the removed bucket and a key
\* that stayed on another.
C2_TailRemovalReached ==
    /\ Removing
    /\ removed = << >>
    /\ buckets = before.buckets - 1
    /\ MovedOffAndStayed(call.arg)

\* C3: after AddBucket returns b, GetBucket(k) is for every key k what it was
\* before the call, or b.
C3_AdditionMovesKeysToNewBucketOnly ==
    Adding =>
        \A key \in Keys :
            LET pre  == Lookup(before, key)
                post == Lookup(Self, key)
            IN  SameEnd(pre, post) \/ Returned(post, call.ret)

\* An AddBucket that reclaimed a removed bucket while another stayed removed:
\* some key moved to the bucket returned, and some key stayed on another one.
C3_ReclaimReached ==
    /\ Adding
    /\ removed # << >>
    /\ call.ret \in DOMAIN before.removed
    /\ \E key \in Keys :
          /\ Returned(Lookup(Self, key), call.ret)
          /\ ~Returned(Lookup(before, key), call.ret)
    /\ \E key \in Keys :
          LET post == Lookup(Self, key)
          IN  /\ post.status = "ok"
              /\ post.bucket \in LiveIds(Self) \ {call.ret}
              /\ SameEnd(Lookup(before, key), post)

\* The elements of a sequence.
Range(s) == {s[i] : i \in DOMAIN s}

\* The last two calls were AddBucket and then RemoveBucket of the id it
\* returned.
AddedThenRemoved ==
    /\ prior.call.name = "AddBucket"
    /\ Removing
    /\ call.arg = prior.call.ret

\* The last two calls were RemoveBucket of a live bucket and then AddBucket.
RemovedThenAdded ==
    /\ prior.call.name = "RemoveBucket"
    /\ prior.call.ret = prior.call.arg
    /\ Adding

\* C4: AddBucket returning b followed at once by RemoveBucket(b) leaves
\* buckets, removed and lastRemoved as they were before the AddBucket.
C4_AddThenRemoveRestores == AddedThenRemoved => Self = prior.before

\* An AddBucket that reclaimed a removed bucket, undone by RemoveBucket.
C4_ReclaimUndone ==
    /\ AddedThenRemoved
    /\ prior.before.removed # << >>
    /\ before.removed # prior.before.removed

\* An AddBucket that appended a bucket, undone by RemoveBucket.
C4_AppendUndone ==
    /\ AddedThenRemoved
    /\ prior.before.removed = << >>
    /\ before.buckets = prior.before.buckets + 1

\* C5: RemoveBucket(b) of a live b followed at once by AddBucket makes
\* AddBucket return b, and leaves buckets, removed and lastRemoved as they were
\* before the removal.
C5_RemoveThenAddReusesId ==
    RemovedThenAdded =>
        call.ret = prior.call.arg /\ Self = prior.before

\* A removal recorded in removed, undone by AddBucket.
C5_RecordedRemovalUndone ==
    /\ RemovedThenAdded
    /\ prior.call.arg \in DOMAIN before.removed
    /\ prior.before.removed # << >>

\* A removal by the tail shortcut, undone by AddBucket.
C5_TailRemovalUndone ==
    /\ RemovedThenAdded
    /\ before.removed = << >>
    /\ before.buckets = prior.before.buckets - 1

\* C6 as stated: Size() is buckets less the number of removed entries, and is
\* the number of distinct ids AddBucket has ever returned less the number of
\* removed entries.
C6_SizeIsIssuedLessRemoved ==
    /\ Size(Self) = buckets - Cardinality(DOMAIN removed)
    /\ Size(Self) = Cardinality(issued) - Cardinality(DOMAIN removed)

\* C6 as amended: Size() is buckets less the number of removed entries, and is
\* the number of distinct ids AddBucket has ever returned less the number of
\* ids removed and not returned by AddBucket again since.
C6_SizeIsIssuedLessPending ==
    /\ Size(Self) = buckets - Cardinality(DOMAIN removed)
    /\ Size(Self) = Cardinality(issued) - Len(pending)

\* A bucket removed by the tail shortcut is outstanding, beside one recorded
\* in removed.
C6_TailRemovalOutstanding ==
    /\ removed # << >>
    /\ Len(pending) > Cardinality(DOMAIN removed)
    /\ Size(Self) > 0

\* C7: the live ids and the keys of removed are disjoint, and together they
\* are 0 .. buckets-1.
C7_LiveAndRemovedPartitionRing ==
    /\ live \cap DOMAIN removed = {}
    /\ live \cup DOMAIN removed = 0..(buckets - 1)

\* Live and removed ids side by side, after a reclaim.
C7_MixedRingReached ==
    /\ Adding
    /\ call.ret \in DOMAIN before.removed
    /\ removed # << >>
    /\ Cardinality(live) >= 2

\* C8: AddBucket returns an id that was not live before the call and is live
\* after it, Size() grows by 1, and removed loses one entry if it had any and
\* else stays empty while buckets grows by 1.
C8_AddBucketPostcondition ==
    Adding =>
        /\ call.ret \notin LiveIds(before)
        /\ call.ret \in LiveIds(Self)
        /\ call.ret \in live
        /\ Size(Self) = Size(before) + 1
        /\ IF before.removed # << >>
           THEN /\ LenRemoved(Self) = LenRemoved(before) - 1
                /\ buckets = before.buckets
           ELSE /\ removed = << >>
                /\ buckets = before.buckets + 1

\* AddBucket has reclaimed a removed bucket that is not the last of the ring.
C8_ReclaimingAddReached ==
    /\ Adding
    /\ before.removed # << >>
    /\ LenRemoved(Self) = LenRemoved(before) - 1
    /\ call.ret < buckets - 1

\* C9: when the ids outstanding at the last RemoveBucket were all recorded in
\* removed, the AddBucket calls made since return them last removed first, and
\* once all are returned removed is empty and Size() is buckets.
C9_ReclaimIsLastInFirstOut ==
    LET order == pendingAt.order
        k     == Len(order)
    IN  Range(order) = pendingAt.recorded =>
            /\ \A i \in 1..Len(adds) : i <= k => adds[i] = order[k + 1 - i]
            /\ (k > 0 /\ Len(adds) = k) =>
                   removed = << >> /\ Size(Self) = buckets

\* Buckets 1 and 3 removed in that order, and returned by the next two
\* AddBucket calls as 3 and 1.
C9_TwoReclaimedInReverse ==
    /\ pendingAt.order = << 1, 3 >>
    /\ pendingAt.recorded = {1, 3}
    /\ adds = << 3, 1 >>

\* C10: on a hasher that has seen no RemoveBucket, the k AddBucket calls made
\* have returned 0, 1, ..., k-1 in that order, and buckets = k,
\* lastRemoved = k, removed is empty and Size() = k.
C10_FreshHasherNumbersFromZero ==
    fresh =>
        LET k == Len(adds)
        IN  /\ adds = [i \in 1..k |-> i - 1]
            /\ buckets = k
            /\ lastRemoved = k
            /\ removed = << >>
            /\ Size(Self) = k

\* Three AddBucket calls on a new hasher.
C10_ThreeFreshAdds == fresh /\ Len(adds) = 3 /\ call.ret = 2

\* The last call was RemoveBucket of an id the hasher did not hold.
RemovingUnknown == call.name = "RemoveBucket" /\ call.arg >= before.buckets

\* C11: RemoveBucket(b) with b >= buckets returns -1 and leaves buckets,
\* removed and lastRemoved as they were.
C11_UnknownBucketRefused == RemovingUnknown => call.ret = -1 /\ Self = before

\* RemoveBucket(0) on a hasher with no bucket, and RemoveBucket of an id past
\* a ring that has a removed bucket recorded.
C11_RefusedOnEmptyHasher ==
    /\ RemovingUnknown
    /\ call.arg = 0
    /\ buckets = 0 /\ lastRemoved = 0 /\ call.ret = -1

C11_RefusedPastRing ==
    RemovingUnknown /\ removed # << >> /\ call.ret = -1

\* C12: on a hasher with buckets = 0, GetBucket returns -1 for every key and
\* Size() is 0.
C12_EmptyHasherReturnsMinusOne ==
    buckets = 0 =>
        /\ \A key \in Keys : Returned(Lookup(Self, key), -1)
        /\ Size(Self) = 0

\* A hasher emptied by two tail removals one after the other.
C12_EmptiedByTailRemovals ==
    /\ buckets = 0
    /\ Len(pending) = 2
    /\ Removing
    /\ \E key \in Keys : Returned(Lookup(Self, key), -1)

\* C13: no call panics: the last call returned normally, and GetBucket of
\* every key returns normally in the state reached, the state with every
\* bucket removed and removed non-empty included.
C13_NoCallPanics ==
    /\ call.status # "panic"
    /\ \A key \in Keys : Lookup(Self, key).status # "panic"

\* The last call was a lookup.
LookingUp == call.name \in {"GetBucket", "Size"}

\* C14: GetBucket and Size leave buckets, removed and lastRemoved as they
\* were, and after either of them GetBucket of every key ends as it did
\* before the call: a second GetBucket of the same key returns the same id.
C14_LookupsArePure ==
    /\ LookingUp => Self = before
    /\ call.name = "GetBucket" =>
           \A key \in Keys : SameEnd(Lookup(before, key), Lookup(Self, key))

\* A GetBucket that was redirected off a removed bucket to a live one.
C14_RedirectedLookupReached ==
    /\ call.name = "GetBucket"
    /\ call.status = "ok"
    /\ removed # << >>
    /\ \E key \in Keys :
          /\ jumpHashOf(HashStringOf(hashFn, key), buckets) \in DOMAIN removed
          /\ Returned(Lookup(Self, key), call.ret)
          /\ call.ret \in LiveIds(Self)

\* No element of the sequence occurs in it twice.
NoRepeat(s) == \A i, j \in DOMAIN s : i # j => s[i] # s[j]

\* C15: GetBucket ends for every key; replace is strictly smaller at each
\* iteration of the outer loop than at the one before, the outer loop runs at
\* most len(removed) + 1 times, and the inner loop stands on no bucket twice.
C15_LookupTerminates ==
    \A key \in Keys :
        LET run   == Lookup(Self, key)
            steps == GetBucketSteps(Self, key)
        IN  /\ run.status # "loop"
            /\ Len(steps) = run.outer
            /\ Len(steps) <= LenRemoved(Self) + 1
            /\ \A i \in 1..(Len(steps) - 1) : steps[i + 1].bound < steps[i].bound
            /\ \A i \in 1..Len(steps) : NoRepeat(steps[i].visits)

\* A lookup of two outer iterations, the inner loop of one of which moved on
\* from the bucket it started with.
C15_TwoRedirectsReached ==
    \E key \in Keys :
        LET steps == GetBucketSteps(Self, key)
        IN  /\ Returned(Lookup(Self, key), Lookup(Self, key).bucket)
            /\ Len(steps) >= 2
            /\ \E i \in 1..Len(steps) : Len(steps[i].visits) >= 2

\* How GetNode ends for the key on the load balancer in the variables.
NodeFor(key) == GetNode(LB, key)

\* C16: while at least one node is registered, GetNode of every non-empty key
\* returns no error and the node the pool holds under the bucket the hasher
\* returns for the key, a node that is registered.
C16_GetNodeFindsRegisteredNode ==
    DOMAIN nodeToBucket # {} =>
        \A key \in Keys :
            LET got    == NodeFor(key)
                bucket == Lookup(Self, key).bucket
            IN  /\ got.status = "ok"
                /\ got.err.nil
                /\ got.node \in DOMAIN nodeToBucket
                /\ bucket \in DOMAIN bucketToNode
                /\ got.node = bucketToNode[bucket]

\* The last two calls were an AddNodes that returned nil and a RemoveNodes of
\* the same list.
AddedThenRemovedNodes ==
    /\ prior.call.name = "AddNodes"
    /\ prior.call.ret.nil
    /\ call.name = "RemoveNodes"
    /\ call.arg = prior.call.arg

\* C17: AddNodes(ns) returning nil followed by RemoveNodes(ns) makes
\* RemoveNodes return nil, leaves no node of ns in the pool, and leaves
\* NodeCount() as it was before the AddNodes.
C17_AddThenRemoveNodesRoundTrip ==
    AddedThenRemovedNodes =>
        /\ call.ret.nil
        /\ \A i \in 1..Len(call.arg) :
              /\ call.arg[i] \notin DOMAIN nodeToBucket
              /\ \A b \in DOMAIN bucketToNode : bucketToNode[b] # call.arg[i]
        /\ NodeCount(LB) = Size(prior.before)

\* Two nodes added to a load balancer without nodes, and removed.
C17_TwoNodesRoundTrip ==
    /\ AddedThenRemovedNodes
    /\ Len(call.arg) = 2
    /\ Size(prior.before) = 0
    /\ Size(before) = 2
    /\ NodeCount(LB) = 0

\* The last call left the pool and the hasher as they were.
NothingChanged == Pool = spBefore /\ Self = before

\* C18: RemoveNodes of a list longer than Size() returns the error "cannot
\* remove more nodes than the size of the working set <Size>" and removes no
\* node from the pool and no bucket from the hasher.
C18_RemoveNodesRefusesLongList ==
    (call.name = "RemoveNodes" /\ Len(call.arg) > Size(before)) =>
        /\ call.ret =
             Errorf("cannot remove more nodes than the size of the working set %d",
                    Size(before))
        /\ NothingChanged

\* A list longer than Size() that names a registered node.
C18_LongListWithRegisteredNode ==
    /\ call.name = "RemoveNodes"
    /\ Len(call.arg) > Size(before)
    /\ Size(before) > 0
    /\ \E i \in 1..Len(call.arg) : call.arg[i] \in DOMAIN nodeToBucket

\* C19: AddNodes of an empty list returns the error "no nodes to add",
\* RemoveNodes of an empty list returns the error "no nodes to remove", and
\* neither changes the pool or the hasher.
C19_EmptyListsRefused ==
    /\ (call.name = "AddNodes" /\ Len(call.arg) = 0) =>
           call.ret = ErrorsNew("no nodes to add") /\ NothingChanged
    /\ (call.name = "RemoveNodes" /\ Len(call.arg) = 0) =>
           call.ret = ErrorsNew("no nodes to remove") /\ NothingChanged

\* AddNodes of an empty list on a load balancer that has a node.
C19_EmptyAddOnLoadedBalancer ==
    /\ call.name = "AddNodes"
    /\ Len(call.arg) = 0
    /\ DOMAIN nodeToBucket # {}
    /\ ~call.ret.nil

\* GetNode of the empty key returns the error "key cannot be empty" and the
\* nil node without a call of the hasher, and changes nothing.
EmptyKeyRefused ==
    LET got == NodeFor(EmptyKey)
    IN  /\ got.status = "ok"
        /\ got.err = ErrorsNew("key cannot be empty")
        /\ got.node = NilNode
        /\ ~got.hashed
        /\ got.lb = LB

\* GetNode of the key returns the error "node not found for bucket -1" and
\* the nil node, and changes nothing.
NodeNotFoundForMinusOne(key) ==
    LET got == NodeFor(key)
    IN  /\ got.status = "ok"
        /\ got.err = Errorf("node not found for bucket %d", -1)
        /\ got.node = NilNode
        /\ got.lb = LB

\* C20: GetNode("") returns "key cannot be empty" without consulting the
\* hasher, GetNode of a key on a load balancer whose hasher has no buckets
\* (Size() = 0) returns "node not found for bucket -1", and both return the
\* nil node and change no state.
C20_GetNodeErrors ==
    /\ EmptyKeyRefused
    /\ Size(Self) = 0 => \A key \in Keys : NodeNotFoundForMinusOne(key)
    /\ call.name = "GetNode" => NothingChanged

\* The same with "no buckets" read as m.buckets = 0.
GetNodeErrorsOnEmptyRing ==
    /\ EmptyKeyRefused
    /\ buckets = 0 => \A key \in Keys : NodeNotFoundForMinusOne(key)
    /\ call.name = "GetNode" => NothingChanged

\* C21: AddNode with a bucket already present, or with a node whose name is
\* already present, returns an error and leaves both maps as they were;
\* RemoveNode of a node whose name is not registered returns (-1, nil, error)
\* and leaves both maps as they were.
C21_PoolErrorsChangeNothing ==
    /\ (/\ call.name = "AddNode"
        /\ \/ call.arg.bucket \in DOMAIN spBefore.bucketToNode
           \/ call.arg.node \in DOMAIN spBefore.nodeToBucket) =>
           ~call.ret.nil /\ Pool = spBefore
    /\ (call.name = "RemoveNode" /\ call.arg \notin DOMAIN spBefore.nodeToBucket) =>
           /\ call.ret.bucket = -1
           /\ call.ret.node = NilNode
           /\ ~call.ret.err.nil
           /\ Pool = spBefore

\* AddNode of a registered node under a bucket the pool does not hold.
C21_RegisteredNodeRefused ==
    /\ call.name = "AddNode"
    /\ call.arg.node \in DOMAIN spBefore.nodeToBucket
    /\ call.arg.bucket \notin DOMAIN spBefore.bucketToNode
    /\ call.ret = ErrorsNew("node already exists")

\* AddNode under a bucket the pool holds, and RemoveNode of an unknown node.
C21_BucketRefused ==
    /\ call.name = "AddNode"
    /\ call.arg.bucket \in DOMAIN spBefore.bucketToNode
    /\ call.ret = Errorf("bucket %d already exists", call.arg.bucket)

C21_UnknownNodeRefused ==
    /\ call.name = "RemoveNode"
    /\ call.arg \notin DOMAIN spBefore.nodeToBucket
    /\ DOMAIN nodeToBucket # {}

\* The last call was RemoveBucket of the last bucket of a ring with no
\* removal recorded.
TailShortcutTaken ==
    /\ call.name = "RemoveBucket"
    /\ before.removed = << >>
    /\ call.arg = before.buckets - 1

\* C22: RemoveBucket(b) with removed empty and b = buckets-1 returns b, sets
\* lastRemoved and buckets to b and leaves removed empty; no other call
\* lowers buckets, and this one lowers it by 1.
C22_TailShortcut ==
    /\ TailShortcutTaken =>
           /\ call.ret = call.arg
           /\ lastRemoved = call.arg
           /\ buckets = call.arg
           /\ removed = << >>
    /\ buckets < before.buckets =>
           TailShortcutTaken /\ buckets = before.buckets - 1

\* The last of three buckets removed by the shortcut.
C22_TailOfThreeRemoved ==
    /\ TailShortcutTaken
    /\ before.buckets = 3
    /\ call.ret = 2
    /\ buckets = 2 /\ lastRemoved = 2

\* The last call was RemoveBucket of a live bucket that did not take the tail
\* shortcut.
RecordedRemoval ==
    /\ call.name = "RemoveBucket"
    /\ call.arg \in LiveIds(before)
    /\ ~TailShortcutTaken

\* C23: RemoveBucket(b) of a live b that does not take the tail shortcut
\* returns b, adds to removed the entry (b, Size()-1, lastRemoved) with both
\* read before the call, and sets lastRemoved to b; buckets is unchanged,
\* Size() is 1 less, and the replacement stored is Size() after the call.
C23_RecordedRemoval ==
    RecordedRemoval =>
        /\ call.ret = call.arg
        /\ removed = MapSet(before.removed, call.arg,
                            Replace(call.arg, Size(before) - 1, before.lastRemoved))
        /\ call.arg \notin DOMAIN before.removed
        /\ lastRemoved = call.arg
        /\ buckets = before.buckets
        /\ Size(Self) = Size(before) - 1
        /\ removed[call.arg].replacement = Size(Self)

\* The last bucket of the ring removed while a removal is recorded.
C23_LastBucketRecorded ==
    /\ RecordedRemoval
    /\ before.removed # << >>
    /\ call.arg = before.buckets - 1
    /\ call.arg \in DOMAIN removed

\* A bucket that is not the last removed from a ring with no removal
\* recorded.
C23_InnerBucketRecorded ==
    /\ RecordedRemoval
    /\ before.removed = << >>
    /\ call.arg < before.buckets - 1
    /\ DOMAIN removed = {call.arg}

\* C24: the entries met from lastRemoved along prevRemoved have the
\* replacements Size(), Size()+1, ..., buckets-1 in that order; the
\* replacements in removed are pairwise distinct, and of two recorded
\* buckets the one removed later has the smaller replacement.
C24_ReplacementsAlongStack ==
    LET stack == RemovalStack(Self)
    IN  /\ Len(stack) = buckets - Size(Self)
        /\ \A i \in 1..Len(stack) :
              removed[stack[i]].replacement = Size(Self) + i - 1
        /\ \A b1, b2 \in DOMAIN removed :
              b1 # b2 => removed[b1].replacement # removed[b2].replacement
        /\ \A i, j \in 1..Len(pending) :
              (/\ i < j
               /\ pending[i] \in DOMAIN removed
               /\ pending[j] \in DOMAIN removed) =>
                  removed[pending[j]].replacement < removed[pending[i]].replacement

\* Three removals recorded, the first of them of the bucket in the middle.
C24_ThreeOnStack ==
    /\ Len(RemovalStack(Self)) = 3
    /\ buckets = 4
    /\ Size(Self) = 1
    /\ pending[1] \in {1, 2}

\* C25: the walk from lastRemoved along prevRemoved meets every entry of
\* removed once, len(removed) entries in all, and ends on a value that is not
\* a key of removed.
C25_StackCoversRemoved ==
    LET stack == RemovalStack(Self)
    IN  /\ Len(stack) = LenRemoved(Self)
        /\ NoRepeat(stack)
        /\ Range(stack) = DOMAIN removed
        /\ (stack # << >> =>
               removed[stack[Len(stack)]].prevRemoved \notin DOMAIN removed)
        /\ (stack = << >> => lastRemoved \notin DOMAIN removed)

\* A stack of two entries left by three removals and an AddBucket.
C25_StackAfterReclaim ==
    /\ Adding
    /\ Len(RemovalStack(Self)) = 2
    /\ LenRemoved(before) = 3

\* Every entry of removed has its bucket and its replacement in
\* [0, buckets).
EntriesInRing ==
    \A b \in DOMAIN removed :
        /\ removed[b].bucket = b
        /\ 0 <= b /\ b < buckets
        /\ 0 <= removed[b].replacement /\ removed[b].replacement < buckets

\* The replacements followed from every removed bucket end on a live bucket.
ReplacementsEndLive ==
    \A b \in DOMAIN removed :
        ReplacementEnd(Self, b, LenRemoved(Self) + 1) \in LiveIds(Self)

\* C26 as stated: every entry of removed has bucket and replacement in
\* [0, buckets), and the replacements followed from its bucket end on a live
\* bucket.
C26_EntriesWellFormed == EntriesInRing /\ ReplacementsEndLive

\* C26: every entry of removed has bucket and replacement in [0, buckets),
\* so the replacement is live or a key of removed; the replacements followed
\* from a removed bucket end on a live bucket or come back to a bucket they
\* left, never leaving the ring.
C26_EntriesInRing ==
    /\ EntriesInRing
    /\ \A b \in DOMAIN removed :
          ReplacementEnd(Self, b, LenRemoved(Self) + 1) \in LiveIds(Self) \cup {-1}

\* A live bucket is left and a removed bucket is its own replacement: the
\* bucket removed was the last of the working set.
C26_OwnReplacementWhileLive ==
    /\ Size(Self) > 0
    /\ Removing
    /\ call.arg \in DOMAIN removed
    /\ removed[call.arg].replacement = call.arg

\* A live bucket is left and the replacements of three removed buckets lead
\* round to the first.
C26_ReplacementCycleWhileLive ==
    /\ Size(Self) > 0
    /\ \E b \in DOMAIN removed :
          /\ removed[b].replacement # b
          /\ ReplacementEnd(Self, b, LenRemoved(Self) + 1) = -1

\* C27: for every digest HashStringWithSeed returns for a key and a bucket
\* of the ring, and every replacement r > 0 recorded in removed,
\* int(digest) % r is in [0, r); and while buckets > 0 no GetBucket that
\* returns gives a negative id.
C27_RedirectStepInRange ==
    /\ \A b \in DOMAIN removed :
          LET r == removed[b].replacement
          IN  r > 0 =>
                \A key \in Keys, bucket \in 0..(buckets - 1) :
                    LET digest == HashStringWithSeedOf(hashFn, key, bucket)
                    IN  0 <= IntRemOf(digest, r) /\ IntRemOf(digest, r) < r
    /\ buckets > 0 =>
          \A key \in Keys :
              Lookup(Self, key).status = "ok" => Lookup(Self, key).bucket >= 0

\* The bucket the jump hash gives the key over the whole ring of m.
Candidate(m, key) == jumpHashOf(HashStringOf(m.hashFn, key), m.buckets)

\* C28: while buckets > 0, GetBucket of a key whose jump hash bucket is not a
\* key of removed returns that bucket without an iteration of the outer
\* loop; with removed empty that is so for every key.
C28_LiveCandidateReturned ==
    buckets > 0 =>
        /\ \A key \in Keys :
              Candidate(Self, key) \notin DOMAIN removed =>
                  /\ Returned(Lookup(Self, key), Candidate(Self, key))
                  /\ Lookup(Self, key).outer = 0
        /\ removed = << >> =>
              \A key \in Keys : Returned(Lookup(Self, key), Candidate(Self, key))

\* Removed buckets are recorded, one key's jump hash bucket is live and
\* returned as it is, and another key's is removed and rehashed.
C28_LiveBesideRedirected ==
    /\ removed # << >>
    /\ \E key \in Keys :
          /\ Candidate(Self, key) \in LiveIds(Self)
          /\ Candidate(Self, key) > 0
          /\ Returned(Lookup(Self, key), Candidate(Self, key))
    /\ \E key \in Keys :
          /\ Candidate(Self, key) \in DOMAIN removed
          /\ Lookup(Self, key).outer > 0

\* Three buckets and none removed: every key gets its jump hash bucket.
C28_NothingRemoved ==
    /\ buckets = 3
    /\ removed = << >>
    /\ \E key \in Keys : Returned(Lookup(Self, key), 2)

\* The last call was RemoveBucket of an id below buckets that was a key of
\* removed already.
IllegalReuse ==
    /\ call.name = "RemoveBucket"
    /\ call.arg \in DOMAIN before.removed
    /\ call.arg < before.buckets

\* C29: RemoveBucket of an id below buckets that is a key of removed already
\* returns the id, puts (id, Size()-1, lastRemoved) in place of its entry
\* and sets lastRemoved to the id; len(removed) and Size() stay as they were.
C29_IllegalReuseOverwrites ==
    IllegalReuse =>
        /\ call.ret = call.arg
        /\ removed = [before.removed EXCEPT
                         ![call.arg] = Replace(call.arg, Size(before) - 1,
                                               before.lastRemoved)]
        /\ lastRemoved = call.arg
        /\ LenRemoved(Self) = LenRemoved(before)
        /\ Size(Self) = Size(before)

\* The older of two removed buckets of a ring of three is removed again: its
\* entry and lastRemoved both change.
C29_OlderEntryOverwritten ==
    /\ IllegalReuse
    /\ before.buckets = 3
    /\ DOMAIN before.removed = {0, 1}
    /\ before.lastRemoved # call.arg
    /\ removed[call.arg] # before.removed[call.arg]

\* C30: RemoveBucket of an id below zero returns -1 and leaves buckets,
\* removed and lastRemoved as they were; buckets is never negative and no
\* key of removed is.
C30_NegativeBucketRefused ==
    /\ (call.name = "RemoveBucket" /\ call.arg < 0) =>
          call.ret = -1 /\ Self = before
    /\ buckets >= 0
    /\ \A b \in DOMAIN removed : b >= 0

\* C31: while removed is not empty lastRemoved is a key of it, the id
\* removed last among its keys, and the prevRemoved of the entry removed
\* first is buckets; while removed is empty lastRemoved = buckets; a call
\* that changes buckets was made with removed empty.
C31_LastRemovedPointer ==
    LET stack == RemovalStack(Self)
    IN  /\ removed # << >> =>
              /\ lastRemoved \in DOMAIN removed
              /\ \E j \in 1..Len(pending) :
                    /\ pending[j] = lastRemoved
                    /\ \A i \in 1..Len(pending) :
                          pending[i] \in DOMAIN removed => i <= j
              /\ stack # << >>
              /\ removed[stack[Len(stack)]].prevRemoved = buckets
        /\ removed = << >> => lastRemoved = buckets
        /\ buckets # before.buckets => before.removed = << >>

\* Two removals are recorded after a tail removal has lowered buckets, and
\* the entry recorded first points at the lowered buckets.
C31_StackOverLoweredRing ==
    /\ Removing
    /\ LenRemoved(Self) = 2
    /\ Len(pending) = 3
    /\ buckets = 3
    /\ removed[pending[2]].prevRemoved = 3

\* AddBucket has taken the last entry from removed and left lastRemoved at
\* buckets.
C31_StackEmptiedByAdd ==
    /\ Adding
    /\ before.removed # << >>
    /\ removed = << >>
    /\ lastRemoved = buckets
    /\ buckets = 3

\* C32: after every call of the load balancer the live buckets of the hasher
\* are the keys of bucketToNode, and NodeCount() is the number of registered
\* nodes.
C32_HasherAgreesWithPool ==
    /\ LiveIds(Self) = DOMAIN bucketToNode
    /\ NodeCount(LB) = Cardinality(DOMAIN nodeToBucket)

\* The last call was AddNodes or RemoveNodes and returned the error of the
\* server pool for one node of its list.
BatchRejectedByPool ==
    /\ call.name \in {"AddNodes", "RemoveNodes"}
    /\ call.ret \in {ErrorsNew("node already exists"),
                     ErrorsNew("node not found"),
                     ErrorsNew("bucket not found")}

\* C33: an AddNodes or RemoveNodes call that returns the server pool's error
\* for one node of its list leaves the pool and the hasher as they were
\* before the call.
C33_BatchesAllOrNothing ==
    BatchRejectedByPool => Self = before /\ Pool = spBefore

\* C34: after every call of the server pool, nodeToBucket[name] = b exactly
\* when bucketToNode[b] is the node of that name; the two maps have the same
\* size, no two nodes have the same bucket and no node is under two buckets.
C34_PoolMapsInverse ==
    /\ \A name \in NodeNames, b \in (-1)..MaxBuckets :
          (name \in DOMAIN nodeToBucket /\ nodeToBucket[name] = b)
              <=> (b \in DOMAIN bucketToNode /\ bucketToNode[b] = name)
    /\ DOMAIN nodeToBucket \subseteq NodeNames
    /\ DOMAIN bucketToNode \subseteq 0..(MaxBuckets - 1)
    /\ Cardinality(DOMAIN nodeToBucket) = Cardinality(DOMAIN bucketToNode)
    /\ \A n1, n2 \in DOMAIN nodeToBucket :
          nodeToBucket[n1] = nodeToBucket[n2] => n1 = n2
    /\ \A b1, b2 \in DOMAIN bucketToNode :
          bucketToNode[b1] = bucketToNode[b2] => b1 = b2

\* AddNode of an unregistered node under a bucket another node holds is
\* refused, the pool holding that one node.
C34_TakenBucketRefused ==
    /\ call.name = "AddNode"
    /\ ~call.ret.nil
    /\ call.arg.node \notin DOMAIN nodeToBucket
    /\ call.arg.bucket \in DOMAIN bucketToNode
    /\ Cardinality(DOMAIN nodeToBucket) = 1

\* RemoveNode has taken one of two registered nodes out of both maps.
C34_OneOfTwoRemoved ==
    /\ call.name = "RemoveNode"
    /\ call.ret.err.nil
    /\ Cardinality(DOMAIN spBefore.nodeToBucket) = 2
    /\ Cardinality(DOMAIN bucketToNode) = 1
    /\ call.ret.bucket \notin DOMAIN bucketToNode

====
